---- MODULE Spec2Model ----
(***************************************************************************)
(* A model of tg-tldr's message store (src/tg_tldr/db.py) and its          *)
(* tokenizer (src/tg_tldr/search.py): the messages table, the              *)
(* messages_fts index the Database keeps next to it, and the operations    *)
(* insert_message, purge_messages_before, reindex_all, search_messages     *)
(* and get_message_by_id.                                                  *)
(*                                                                         *)
(* Texts are sequences of one-character strings.  A timestamp column       *)
(* holds the isoformat() string of a datetime; the model keeps of that     *)
(* string what SQLite's text comparison reads: the instant, and whether a  *)
(* "+00:00" suffix follows it.                                             *)
(***************************************************************************)
EXTENDS Integers, Sequences, FiniteSets, TLC

VARIABLES
    messages,   \* the connection's view of table messages: key -> row, for the keys it holds
    fts,        \* the connection's view of messages_fts: key -> its entries, in rowid order
    durable,    \* the committed database: [messages, fts]
    res,        \* the last completed call: its name, arguments and return value
    tasks       \* the coroutines in flight on the Database: task -> its position

vars == <<messages, fts, durable, res, tasks>>

-----------------------------------------------------------------------------
(* Bounds of the model. *)

MaxKeys == 3        \* the number of message keys in use
MaxDay == 1         \* calendar days 0..MaxDay
MaxLimit == 2       \* limits 0..MaxLimit
MaxTasks == 2       \* coroutines in flight on one Database
TicksPerDay == 2    \* instants of one calendar day
MaxQueryLen == 3    \* characters of a query string
MaxMsgs == 3        \* messages of one summarized scope
MaxMsgId == 3       \* message ids 0..MaxMsgId
MaxLines == 9       \* lines rendered by one call: more than 2 * MaxMsgs
MaxGroups == 3      \* configured groups

\* (id, group_id) keys: two ids of one group, and an id used in two groups
KeyOrder == << <<1, 1>>, <<2, 1>>, <<1, 2>>, <<2, 2>> >>
Keys == {KeyOrder[i] : i \in {j \in 1..MaxKeys : j <= Len(KeyOrder)}}
Groups == {k[2] : k \in Keys}
Days == 0..MaxDay
PurgeDays == 0..(MaxDay + 1)
Limits == 0..MaxLimit
Tasks == 1..MaxTasks

\* an optional value: None, or Some(v)
None == <<>>
Some(v) == <<v>>

-----------------------------------------------------------------------------
(* Characters and strings. *)

Quote == "\""
WordChars == {"a", "b"}
IsSpace(c) == c = " "
IsWordChar(c) == c \in WordChars

RECURSIVE Join(_)
\* " ".join(tokens)
Join(tokens) ==
    IF tokens = <<>> THEN <<>>
    ELSE IF Len(tokens) = 1 THEN Head(tokens)
    ELSE Head(tokens) \o <<" ">> \o Join(Tail(tokens))

RECURSIVE Strip(_)
\* str.strip(): leading and trailing whitespace removed
Strip(s) ==
    IF s = <<>> THEN <<>>
    ELSE IF IsSpace(Head(s)) THEN Strip(Tail(s))
    ELSE IF IsSpace(s[Len(s)]) THEN Strip(SubSeq(s, 1, Len(s) - 1))
    ELSE s

RECURSIVE RunLen(_, _)
\* the length of the longest prefix of s whose characters all satisfy the class
RunLen(s, class) ==
    IF s = <<>> \/ Head(s) \notin class THEN 0 ELSE 1 + RunLen(Tail(s), class)

RECURSIVE cut_for_search(_)
\* jieba.cut_for_search on text without CJK: a run of word characters is one
\* token, every other character (a space, a punctuation mark) is a token of its own
cut_for_search(s) ==
    IF s = <<>> THEN <<>>
    ELSE IF IsWordChar(Head(s))
         THEN LET n == RunLen(s, WordChars)
              IN  <<SubSeq(s, 1, n)>> \o cut_for_search(SubSeq(s, n + 1, Len(s)))
         ELSE <<(<<Head(s)>>)>> \o cut_for_search(Tail(s))

\* search.tokenize: the non-blank tokens of the text, joined by single spaces
tokenize(text) ==
    IF text = <<>> THEN <<>>
    ELSE Join(SelectSeq(cut_for_search(text), LAMBDA t : Strip(t) # <<>>))

\* tokenize_query without its replace of the double quotes
EscapeQuotesNot(t) == t

RECURSIVE EscapeQuotes(_)
\* t.replace('"', '""')
EscapeQuotes(t) ==
    IF t = <<>> THEN <<>>
    ELSE IF Head(t) = Quote THEN <<Quote, Quote>> \o EscapeQuotes(Tail(t))
    ELSE <<Head(t)>> \o EscapeQuotes(Tail(t))

RECURSIVE SafeTokens(_)
\* the loop of tokenize_query: every token stripped, the blank ones dropped,
\* the others escaped and wrapped in double quotes
SafeTokens(tokens) ==
    IF tokens = <<>> THEN <<>>
    ELSE LET t == Strip(Head(tokens))
         IN  IF t # <<>>
             THEN <<(<<Quote>> \o EscapeQuotes(t) \o <<Quote>>)>> \o SafeTokens(Tail(tokens))
             ELSE SafeTokens(Tail(tokens))

\* search.tokenize_query: the MATCH expression of a query
tokenize_query(query) ==
    IF query = <<>> THEN <<>>
    ELSE Join(SafeTokens(cut_for_search(query)))

-----------------------------------------------------------------------------
(* The FTS5 engine: the unicode61 tokenizer of the text column and the      *)
(* evaluation of a MATCH expression made of quoted phrases.                 *)

RECURSIVE unicode61(_)
\* the index terms of a string: its runs of letters and digits; every other
\* character separates terms
unicode61(s) ==
    IF s = <<>> THEN <<>>
    ELSE IF IsWordChar(Head(s))
         THEN LET n == RunLen(s, WordChars)
              IN  <<SubSeq(s, 1, n)>> \o unicode61(SubSeq(s, n + 1, Len(s)))
         ELSE unicode61(Tail(s))

RECURSIVE QuotedLen(_)
\* s follows an opening quote: the number of characters up to and including
\* the closing quote, a doubled quote being part of the phrase
QuotedLen(s) ==
    IF s = <<>> THEN 0
    ELSE IF Head(s) = Quote
         THEN IF Len(s) >= 2 /\ s[2] = Quote THEN 2 + QuotedLen(Tail(Tail(s))) ELSE 1
         ELSE 1 + QuotedLen(Tail(s))

RECURSIVE UnescapeQuotes(_)
UnescapeQuotes(s) ==
    IF s = <<>> THEN <<>>
    ELSE IF Head(s) = Quote /\ Len(s) >= 2 /\ s[2] = Quote
         THEN <<Quote>> \o UnescapeQuotes(Tail(Tail(s)))
         ELSE <<Head(s)>> \o UnescapeQuotes(Tail(s))

RECURSIVE Fts5Phrases(_)
\* the phrases of a MATCH expression, in order: a quoted string, or a bare run
\* of word characters; spaces separate them
Fts5Phrases(expr) ==
    IF expr = <<>> THEN <<>>
    ELSE IF Head(expr) = Quote
         THEN LET n == QuotedLen(Tail(expr))
              IN  <<UnescapeQuotes(SubSeq(expr, 2, n))>>
                    \o Fts5Phrases(SubSeq(expr, n + 2, Len(expr)))
    ELSE IF IsWordChar(Head(expr))
         THEN LET n == RunLen(expr, WordChars)
              IN  <<SubSeq(expr, 1, n)>> \o Fts5Phrases(SubSeq(expr, n + 1, Len(expr)))
    ELSE Fts5Phrases(Tail(expr))

\* the terms of phrase p occur next to each other, in order, in the terms of doc
PhraseIn(p, doc) ==
    \E i \in 0..(Len(doc) - Len(p)) : \A j \in 1..Len(p) : doc[i + j] = p[j]

\* the phrases of a MATCH expression as the engine evaluates them: each one
\* its terms, a phrase without terms dropped
Fts5Query(expr) ==
    LET phrases == Fts5Phrases(expr)
    IN  SelectSeq([i \in 1..Len(phrases) |-> unicode61(phrases[i])],
                  LAMBDA p : p # <<>>)

\* text MATCH ?: the phrases are ANDed, and a query with no phrase left
\* matches no row
Fts5Match(indexed, fquery) ==
    LET doc == unicode61(indexed)
    IN  /\ fquery # <<>>
        /\ \A i \in 1..Len(fquery) : PhraseIn(fquery[i], doc)

-----------------------------------------------------------------------------
(* Timestamps.  An instant is a number of ticks, TicksPerDay of them a day:  *)
(* the first tick of day d is 00:00:00 of that day, the last one            *)
(* 23:59:59.999999.  A datetime is an instant and whether it carries the    *)
(* UTC offset.  Messages are stamped with the first instant of a day.       *)

Instants == {d * TicksPerDay : d \in Days}
Datetimes == [t : Instants, utc : BOOLEAN]
NaiveDatetimes == [t : Instants, utc : {FALSE}]

\* datetime.isoformat(): the digits of the instant, then "+00:00" for an aware one
isoformat(dt) == IF dt.utc THEN <<dt.t, "+00:00">> ELSE <<dt.t>>

\* datetime.fromisoformat()
fromisoformat(s) == [t |-> s[1], utc |-> Len(s) = 2]

\* SQLite's comparison of two isoformat strings: a < b as text.  The digits
\* decide; with equal digits the string without the suffix is a proper prefix
\* of the other, and so the smaller
TextLess(a, b) == a[1] < b[1] \/ (a[1] = b[1] /\ Len(a) < Len(b))

\* datetime.combine(d, datetime.min.time())
DayStart(d) == [t |-> d * TicksPerDay, utc |-> FALSE]

\* datetime.combine(d, datetime.max.time())
DayEnd(d) == [t |-> d * TicksPerDay + (TicksPerDay - 1), utc |-> FALSE]

-----------------------------------------------------------------------------
(* The SQL statements of db.py, as functions of the tables they read and    *)
(* write.  m is table messages, f is table messages_fts.                    *)

EmptyMessages == [k \in {} |-> None]
EmptyFts == [k \in Keys |-> <<>>]

KeyOf(msg) == <<msg.id, msg.group_id>>

\* INSERT OR REPLACE INTO messages ... VALUES (...)
SqlReplaceRow(m, msg) ==
    [k \in DOMAIN m \cup {KeyOf(msg)} |->
        IF k = KeyOf(msg)
        THEN [text |-> msg.text, timestamp |-> isoformat(msg.timestamp)]
        ELSE m[k]]

\* DELETE FROM messages_fts WHERE msg_id = ?
SqlFtsDeleteId(f, k) == [j \in Keys |-> IF j[1] = k[1] THEN <<>> ELSE f[j]]

\* DELETE FROM messages_fts WHERE msg_id = ? AND group_id = ?
SqlFtsDeleteKey(f, k) == [f EXCEPT ![k] = <<>>]

\* INSERT INTO messages_fts(msg_id, group_id, text) VALUES (?, ?, ?)
SqlFtsInsert(f, k, tokenized) == [f EXCEPT ![k] = Append(@, tokenized)]

\* _index_message without its DELETE
IndexMessageNoDelete(f, k, text) ==
    IF tokenize(text) = <<>> THEN f ELSE SqlFtsInsert(f, k, tokenize(text))

\* Database._index_message: nothing at all for a text without tokens, else
\* the key's entries deleted and one entry inserted
IndexMessage(f, k, text) ==
    IF tokenize(text) = <<>> THEN f
    ELSE SqlFtsInsert(SqlFtsDeleteKey(f, k), k, tokenize(text))

\* SELECT id, group_id FROM messages WHERE timestamp <= ?
RowsUpTo(m, cutoff) ==
    {k \in DOMAIN m : ~TextLess(cutoff, m[k].timestamp)}

\* SELECT id, group_id FROM messages WHERE timestamp < ?
RowsBefore(m, cutoff) ==
    {k \in DOMAIN m : TextLess(m[k].timestamp, cutoff)}

\* purge_messages_before without its DELETE FROM messages_fts
SqlFtsDeleteNothing(m, f, cutoff) == f

\* DELETE FROM messages_fts WHERE (msg_id, group_id) IN (SELECT ... timestamp < ?)
SqlFtsDeleteBefore(m, f, cutoff) ==
    [k \in Keys |-> IF k \in RowsBefore(m, cutoff) THEN <<>> ELSE f[k]]

\* DELETE FROM messages WHERE timestamp < ?
SqlDeleteBefore(m, cutoff) ==
    [k \in DOMAIN m \ RowsBefore(m, cutoff) |-> m[k]]

\* reindex_all without its DELETE FROM messages_fts
SqlFtsKeepAll(f) == f

\* DELETE FROM messages_fts
SqlFtsDeleteAll(f) == EmptyFts

\* reindex_all indexing every row it fetched
ReindexTodoAll(rows) == DOMAIN rows

\* the rows of SELECT id, group_id, text FROM messages that the loop of
\* reindex_all writes an entry for: those whose text has tokens
ReindexTodo(rows) == {k \in DOMAIN rows : tokenize(rows[k].text) # <<>>}

\* the loop of reindex_all over the rows fetched: one entry for every row
\* whose text has tokens
ReindexRows(f, rows) ==
    [k \in Keys |->
        IF k \in DOMAIN rows /\ tokenize(rows[k].text) # <<>>
        THEN Append(f[k], tokenize(rows[k].text))
        ELSE f[k]]

\* the count reindex_all returns
ReindexCount(rows) ==
    Cardinality({k \in DOMAIN rows : tokenize(rows[k].text) # <<>>})

-----------------------------------------------------------------------------
(* The calls, each run from its first statement to its commit with no other *)
(* call in between.                                                         *)

Idle == [pc |-> "idle"]
NoCall == [op |-> "none"]
AllIdle == \A t \in DOMAIN tasks : tasks[t] = Idle

\* a commit that made the rows durable and lost the index
CommittedRowsOnly(m, f) == [messages |-> m, fts |-> EmptyFts]

\* what a commit makes durable: all the connection has written
Committed(m, f) == [messages |-> m, fts |-> f]

\* Database.insert_message
insert_message(msg) ==
    /\ AllIdle
    /\ messages' = SqlReplaceRow(messages, msg)
    /\ fts' = IndexMessage(fts, KeyOf(msg), msg.text)
    /\ durable' = Committed(messages', fts')
    /\ res' = [op |-> "insert_message", msg |-> msg, ret |-> None]
    /\ UNCHANGED tasks

\* Database.purge_messages_before
purge_messages_before(d) ==
    LET cutoff == isoformat(DayStart(d))
    IN  /\ AllIdle
        /\ fts' = SqlFtsDeleteBefore(messages, fts, cutoff)
        /\ messages' = SqlDeleteBefore(messages, cutoff)
        /\ durable' = Committed(messages', fts')
        /\ res' = [op |-> "purge_messages_before", before_date |-> d,
                   ret |-> Cardinality(RowsBefore(messages, cutoff)),
                   removed |-> DOMAIN messages \ DOMAIN messages']
        /\ UNCHANGED tasks

\* Database.reindex_all
reindex_all ==
    /\ AllIdle
    /\ fts' = ReindexRows(SqlFtsDeleteAll(fts), messages)
    /\ durable' = Committed(messages, fts')
    /\ res' = [op |-> "reindex_all", ret |-> ReindexCount(messages)]
    /\ UNCHANGED <<messages, tasks>>

-----------------------------------------------------------------------------
(* search_messages and get_message_by_id.                                   *)

\* a row of messages as the Message the reads build of it
AsMessage(m, k) ==
    [id |-> k[1], group_id |-> k[2], text |-> m[k].text,
     timestamp |-> fromisoformat(m[k].timestamp)]

\* FROM messages_fts f JOIN messages m ON m.id = f.msg_id AND m.group_id = f.group_id
\* WHERE f.text MATCH ? [AND m.group_id = ?] [AND m.timestamp >= ?] [AND m.timestamp <= ?]
\* : the joined rows, each an index entry <<key, its place among the key's entries>>
Joined(m, f, expr, group_id, date_from, date_to) ==
    LET fquery == Fts5Query(expr)
    IN
    {e \in UNION {{<<k, i>> : i \in 1..Len(f[k])} : k \in Keys} :
        /\ e[1] \in DOMAIN m
        /\ Fts5Match(f[e[1]][e[2]], fquery)
        /\ group_id # None => e[1][2] = group_id[1]
        /\ date_from # None => ~TextLess(m[e[1]].timestamp, isoformat(date_from[1]))
        /\ date_to # None => ~TextLess(isoformat(date_to[1]), m[e[1]].timestamp)}

\* SELECT count(*) ...
SqlCount(m, f, expr, group_id, date_from, date_to) ==
    Cardinality(Joined(m, f, expr, group_id, date_from, date_to))

\* ORDER BY m.timestamp ASC LIMIT ? in place of DESC
OrderedPagesAsc(m, rows, n) ==
    {p \in [1..n -> rows] :
        /\ \A i, j \in 1..n : i # j => p[i] # p[j]
        /\ \A i, j \in 1..n :
               i < j => ~TextLess(m[p[j][1]].timestamp, m[p[i][1]].timestamp)
        /\ \A e \in rows \ {p[j] : j \in 1..n} : \A i \in 1..n :
               ~TextLess(m[e[1]].timestamp, m[p[i][1]].timestamp)}

\* ORDER BY m.timestamp DESC LIMIT ? over the joined rows: every page the
\* engine may return.  Rows with equal timestamps come in any order; a
\* negative limit is no limit
OrderedPages(m, rows, n) ==
    {p \in [1..n -> rows] :
        /\ \A i, j \in 1..n : i # j => p[i] # p[j]
        /\ \A i, j \in 1..n :
               i < j => ~TextLess(m[p[i][1]].timestamp, m[p[j][1]].timestamp)
        /\ \A e \in rows \ {p[j] : j \in 1..n} : \A i \in 1..n :
               ~TextLess(m[p[i][1]].timestamp, m[e[1]].timestamp)}

\* SELECT ... WHERE ... ORDER BY m.timestamp DESC LIMIT ?
SqlPages(m, f, expr, group_id, date_from, date_to, limit) ==
    LET rows == Joined(m, f, expr, group_id, date_from, date_to)
        total == Cardinality(rows)
    IN  OrderedPages(m, rows, IF limit < 0 \/ limit > total THEN total ELSE limit)

\* the messages list search_messages builds of a page
PageMessages(m, page) == [i \in 1..Len(page) |-> AsMessage(m, page[i][1])]

\* search_messages with its total taken from the page it fetched
SearchReturnsPageLen(m, f, query, group_id, date_from, date_to, limit) ==
    LET expr == tokenize_query(query)
    IN  IF expr = <<>>
        THEN {[messages |-> <<>>, total |-> 0, statements |-> 0]}
        ELSE {[messages |-> PageMessages(m, page), total |-> Len(page), statements |-> 2] :
                 page \in SqlPages(m, f, expr, group_id, date_from, date_to, limit)}

\* search_messages without its return for a query without terms
SearchReturnsNoGuard(m, f, query, group_id, date_from, date_to, limit) ==
    LET expr == tokenize_query(query)
        total == SqlCount(m, f, expr, group_id, date_from, date_to)
    IN  {[messages |-> PageMessages(m, page), total |-> total, statements |-> 2] :
             page \in SqlPages(m, f, expr, group_id, date_from, date_to, limit)}

\* what search_messages may return on tables m and f: the messages, the
\* total, and the number of statements it executed
SearchReturns(m, f, query, group_id, date_from, date_to, limit) ==
    LET expr == tokenize_query(query)
        total == SqlCount(m, f, expr, group_id, date_from, date_to)
    IN  IF expr = <<>>
        THEN {[messages |-> <<>>, total |-> 0, statements |-> 0]}
        ELSE {[messages |-> PageMessages(m, page), total |-> total, statements |-> 2] :
                 page \in SqlPages(m, f, expr, group_id, date_from, date_to, limit)}

\* Database.search_messages
search_messages(query, group_id, date_from, date_to, limit) ==
    /\ AllIdle
    /\ \E r \in SearchReturns(messages, fts, query, group_id, date_from, date_to, limit) :
           res' = [op |-> "search_messages", query |-> query, group_id |-> group_id,
                   date_from |-> date_from, date_to |-> date_to, limit |-> limit] @@ r
    /\ UNCHANGED <<messages, fts, durable, tasks>>

\* SELECT ... FROM messages WHERE group_id = ? AND id = ?, and what
\* get_message_by_id returns of it
GetMessageById(m, group_id, msg_id) ==
    IF <<msg_id, group_id>> \in DOMAIN m THEN Some(AsMessage(m, <<msg_id, group_id>>)) ELSE None

\* SELECT ... FROM messages WHERE group_id = ? AND timestamp >= ? AND timestamp <= ?
RowsOfDay(m, group_id, start, end) ==
    {k \in DOMAIN m :
        /\ k[2] = group_id
        /\ ~TextLess(m[k].timestamp, start)
        /\ ~TextLess(end, m[k].timestamp)}

\* ORDER BY timestamp ASC: every order the engine may return the rows in
AscendingLists(m, keys) ==
    {p \in [1..Cardinality(keys) -> keys] :
        /\ \A i, j \in 1..Cardinality(keys) : i # j => p[i] # p[j]
        /\ \A i, j \in 1..Cardinality(keys) :
               i < j => ~TextLess(m[p[j]].timestamp, m[p[i]].timestamp)}

\* what get_messages_by_date_and_group may return on table m
GetMessagesByDateAndGroup(m, group_id, target_date) ==
    {[i \in 1..Len(p) |-> AsMessage(m, p[i])] :
        p \in AscendingLists(m, RowsOfDay(m, group_id, isoformat(DayStart(target_date)),
                                          isoformat(DayEnd(target_date))))}

\* Database.get_message_by_id
get_message_by_id(group_id, msg_id) ==
    /\ AllIdle
    /\ res' = [op |-> "get_message_by_id", group_id |-> group_id, msg_id |-> msg_id,
               ret |-> GetMessageById(messages, group_id, msg_id)]
    /\ UNCHANGED <<messages, fts, durable, tasks>>

-----------------------------------------------------------------------------
(* The store used by one caller at a time: every call runs to its commit    *)
(* before the next one starts.                                              *)

Blank == <<" ">>
TextA == <<"a">>
TextBA == <<"b", " ", " ", "a">>

Texts == {Blank, TextA, TextBA}

\* the Message records of a set of texts and datetimes
MessagesOf(texts, datetimes) ==
    {[id |-> k[1], group_id |-> k[2], text |-> x, timestamp |-> dt] :
        k \in Keys, x \in texts, dt \in datetimes}

Messages == MessagesOf(Texts, Datetimes)

Init ==
    /\ messages = EmptyMessages
    /\ fts = EmptyFts
    /\ durable = Committed(EmptyMessages, EmptyFts)
    /\ res = NoCall
    /\ tasks = <<>>

Next ==
    \/ \E msg \in Messages : insert_message(msg)
    \/ \E d \in PurgeDays : purge_messages_before(d)
    \/ reindex_all

Spec == Init /\ [][Next]_vars

-----------------------------------------------------------------------------
(* The store written and searched by one caller at a time.                  *)

Bang == <<"!">>
SearchTexts == {TextA, TextBA, Bang}
SearchMessages == MessagesOf(SearchTexts, NaiveDatetimes)

Queries == { <<>>, Blank, TextA, <<"b">>, Bang, <<"a", " ", "b">> }

\* the filters of a search: none, a group, a date range
Filters ==
    { [group_id |-> None, date_from |-> None, date_to |-> None],
      [group_id |-> Some(1), date_from |-> None, date_to |-> None],
      [group_id |-> None, date_from |-> Some(DayStart(0)), date_to |-> Some(DayStart(0))] }

NextSearch ==
    \/ \E msg \in SearchMessages : insert_message(msg)
    \/ \E d \in PurgeDays : purge_messages_before(d)
    \/ reindex_all
    \/ \E q \in Queries, x \in Filters, limit \in Limits :
           search_messages(q, x.group_id, x.date_from, x.date_to, limit)

SpecSearch == Init /\ [][NextSearch]_vars

-----------------------------------------------------------------------------
(* Properties of the store used by one caller at a time.                    *)

\* the row insert_message writes for msg
RowOf(msg) == [text |-> msg.text, timestamp |-> isoformat(msg.timestamp)]

\* the keys of the messages a search may return, whatever its filters and limit
Found(query) ==
    {e[1] : e \in Joined(messages, fts, tokenize_query(query), None, None, None)}

\* C1: messages_fts holds an entry for a key if and only if messages holds a
\* row for that key whose text tokenizes to a non-empty string.
C1_EntryIffTokens ==
    \A k \in Keys :
        fts[k] # <<>> <=> (k \in DOMAIN messages /\ tokenize(messages[k].text) # <<>>)

\* C2: every entry of messages_fts holds tokenize(text) of the current
\* messages row with the same key.
C2_EntryIsCurrent ==
    \A k \in Keys : \A i \in 1..Len(fts[k]) :
        k \in DOMAIN messages /\ fts[k][i] = tokenize(messages[k].text)

\* C3: after insert_message the key's row carries the fields of that insert,
\* the insert adds no row but the key's, and no key ever has two entries in
\* messages_fts.
C3_UpsertState ==
    /\ \A k \in Keys : Len(fts[k]) <= 1
    /\ res.op = "insert_message" =>
           /\ KeyOf(res.msg) \in DOMAIN messages
           /\ messages[KeyOf(res.msg)] = RowOf(res.msg)

C3_UpsertStep ==
    res'.op = "insert_message" =>
        DOMAIN messages' = DOMAIN messages \cup {KeyOf(res'.msg)}

C3_Upsert == []C3_UpsertState /\ [][C3_UpsertStep]_vars

\* a key inserted with a text that has tokens and then again with one that
\* has none, while the other group holds a message of the same id
C3_Witness ==
    /\ res.op = "insert_message"
    /\ tokenize(res.msg.text) = <<>>
    /\ Len(fts[KeyOf(res.msg)]) = 1
    /\ \E k \in DOMAIN messages : k[1] = res.msg.id /\ k[2] # res.msg.group_id

\* C5: insert_message of a text without tokens stores the row and leaves no
\* entry for the key in messages_fts.
C5_BlankLeavesNoEntry ==
    (res.op = "insert_message" /\ tokenize(res.msg.text) = <<>>) =>
        /\ KeyOf(res.msg) \in DOMAIN messages
        /\ messages[KeyOf(res.msg)] = RowOf(res.msg)
        /\ fts[KeyOf(res.msg)] = <<>>

\* C7: after purge_messages_before(d) no row is older than 00:00:00 of d, no
\* removed key has an entry in messages_fts, the return value is the number
\* of rows removed; and a key that messages does not hold is returned by no
\* get_message_by_id and no search_messages.
C7_Purge ==
    /\ res.op = "purge_messages_before" =>
           /\ \A k \in DOMAIN messages :
                  fromisoformat(messages[k].timestamp).t >= DayStart(res.before_date).t
           /\ \A k \in res.removed : fts[k] = <<>>
           /\ res.ret = Cardinality(res.removed)
    /\ \A k \in Keys \ DOMAIN messages :
           /\ GetMessageById(messages, k[2], k[1]) = None
           /\ \A q \in Queries : k \notin Found(q)

\* a purge that removed an indexed message and kept a message of the cutoff day
C7_Witness ==
    /\ res.op = "purge_messages_before"
    /\ res.ret >= 1
    /\ \E k \in DOMAIN messages :
           fromisoformat(messages[k].timestamp) = [t |-> DayStart(res.before_date).t, utc |-> TRUE]

-----------------------------------------------------------------------------
(* Properties of search_messages on the store used by one caller at a time. *)

\* the terms of tokenize(text): the non-blank tokens of the text
TermsOf(text) ==
    LET tokens == cut_for_search(text)
    IN  {tokens[i] : i \in {j \in 1..Len(tokens) : Strip(tokens[j]) # <<>>}}

Unfiltered ==
    res.group_id = None /\ res.date_from = None /\ res.date_to = None

\* C6: a search for a term of a stored message's tokenized text, with no
\* filter and a limit that is at least the total, returns that message.
C6_TermFindsMessage ==
    (res.op = "search_messages" /\ Unfiltered /\ res.limit >= res.total) =>
        \A k \in DOMAIN messages :
            res.query \in TermsOf(messages[k].text) =>
                \E i \in 1..Len(res.messages) : res.messages[i] = AsMessage(messages, k)

\* C8: a search whose query has no term returns no message and total 0 and
\* executes no statement, whatever the store, the filters and the limit.
C8_NoTermsNoSearch ==
    (res.op = "search_messages" /\ TermsOf(res.query) = {}) =>
        res.messages = <<>> /\ res.total = 0 /\ res.statements = 0

\* a whitespace-only query, filtered by group, on a store holding two messages
\* of that group that a search can find
C8_Witness ==
    /\ res.op = "search_messages"
    /\ res.query = Blank
    /\ res.group_id = Some(1)
    /\ res.limit = MaxLimit
    /\ Cardinality({k \in DOMAIN messages : k[2] = 1 /\ fts[k] # <<>>}) >= 2

\* C10: on the same store the same search with any other limit returns the
\* same total, and the page is as long as the smaller of limit and total.
C10_TotalIgnoresLimit ==
    res.op = "search_messages" =>
        /\ \A limit \in Limits :
               \A r \in SearchReturns(messages, fts, res.query, res.group_id,
                                      res.date_from, res.date_to, limit) :
                   r.total = res.total
        /\ Len(res.messages) = IF res.limit < res.total THEN res.limit ELSE res.total

\* a search whose limit cut the page short of the total
C10_Witness ==
    /\ res.op = "search_messages"
    /\ res.limit = 1
    /\ res.total >= 2
    /\ Len(res.messages) = 1

-----------------------------------------------------------------------------
(* Coroutines sharing one Database.  Every await of a statement is a point  *)
(* where another coroutine may run; the statements of all coroutines go to  *)
(* the one connection, whose transaction a commit of any of them ends.  A   *)
(* crash loses what no commit has made durable.                             *)

At(t, pc) == tasks[t].pc = pc

Goto(t, next) == tasks' = [tasks EXCEPT ![t] = next]

\* insert_message up to its first await: INSERT OR REPLACE INTO messages;
\* _index_message then returns at once for a text without tokens
InsertRowStep(t, msg) ==
    /\ At(t, "idle")
    /\ messages' = SqlReplaceRow(messages, msg)
    /\ Goto(t, [pc |-> IF tokenize(msg.text) = <<>> THEN "commit" ELSE "fts_delete",
                msg |-> msg])
    /\ UNCHANGED <<fts, durable, res>>

\* _index_message: DELETE FROM messages_fts WHERE msg_id = ? AND group_id = ?
FtsDeleteStep(t) ==
    /\ At(t, "fts_delete")
    /\ fts' = SqlFtsDeleteKey(fts, KeyOf(tasks[t].msg))
    /\ Goto(t, [tasks[t] EXCEPT !.pc = "fts_insert"])
    /\ UNCHANGED <<messages, durable, res>>

\* _index_message: INSERT INTO messages_fts
FtsInsertStep(t) ==
    /\ At(t, "fts_insert")
    /\ fts' = SqlFtsInsert(fts, KeyOf(tasks[t].msg), tokenize(tasks[t].msg.text))
    /\ Goto(t, [tasks[t] EXCEPT !.pc = "commit"])
    /\ UNCHANGED <<messages, durable, res>>

\* insert_message: commit, which makes durable all the connection has written
InsertCommitStep(t) ==
    /\ At(t, "commit")
    /\ durable' = Committed(messages, fts)
    /\ res' = [op |-> "insert_message", msg |-> tasks[t].msg, ret |-> None]
    /\ Goto(t, Idle)
    /\ UNCHANGED <<messages, fts>>

\* search_messages up to its second await: the return for a query without
\* terms, else the count query
SearchCountStep(t, query, group_id, date_from, date_to, limit) ==
    LET expr == tokenize_query(query)
        call == [op |-> "search_messages", query |-> query, group_id |-> group_id,
                 date_from |-> date_from, date_to |-> date_to, limit |-> limit]
    IN  /\ At(t, "idle")
        /\ IF expr = <<>>
           THEN /\ res' = call @@ [messages |-> <<>>, total |-> 0, statements |-> 0]
                /\ UNCHANGED tasks
           ELSE /\ Goto(t, [pc |-> "page", call |-> call,
                            total |-> SqlCount(messages, fts, expr, group_id,
                                               date_from, date_to)])
                /\ UNCHANGED res
        /\ UNCHANGED <<messages, fts, durable>>

\* search_messages: the page query
SearchPageStep(t) ==
    LET call == tasks[t].call
    IN  /\ At(t, "page")
        /\ \E page \in SqlPages(messages, fts, tokenize_query(call.query), call.group_id,
                                call.date_from, call.date_to, call.limit) :
               res' = call @@ [messages |-> PageMessages(messages, page),
                               total |-> tasks[t].total, statements |-> 2]
        /\ Goto(t, Idle)
        /\ UNCHANGED <<messages, fts, durable>>

\* the process dies: the database is what was committed, and no coroutine is left
Crash ==
    /\ messages' = durable.messages
    /\ fts' = durable.fts
    /\ tasks' = [t \in DOMAIN tasks |-> Idle]
    /\ res' = [op |-> "crash"]
    /\ UNCHANGED durable

\* the messages of one group and one instant, and the searches without filter
ConcTexts == {Blank, TextA}
ConcMessages == {msg \in MessagesOf(ConcTexts, {DayStart(0)}) : msg.group_id = 1}
ConcQueries == {TextA}

InitConc ==
    /\ messages = EmptyMessages
    /\ fts = EmptyFts
    /\ durable = Committed(EmptyMessages, EmptyFts)
    /\ res = NoCall
    /\ tasks = [t \in Tasks |-> Idle]

NextConc ==
    \/ \E t \in Tasks :
           \/ \E msg \in ConcMessages : InsertRowStep(t, msg)
           \/ FtsDeleteStep(t)
           \/ FtsInsertStep(t)
           \/ InsertCommitStep(t)
           \/ \E q \in ConcQueries, limit \in Limits :
                  SearchCountStep(t, q, None, None, None, limit)
           \/ SearchPageStep(t)
    \/ Crash

SpecConc == InitConc /\ [][NextConc]_vars

-----------------------------------------------------------------------------
(* Properties of the store under concurrent coroutines and crashes.         *)

\* C4: whatever the point of a crash, the durable database holds an entry for
\* every row whose text has tokens, and every durable entry is tokenize of
\* the durable row of its key.
C4_DurableRowAndEntryTogether ==
    \A k \in Keys :
        /\ (k \in DOMAIN durable.messages /\ tokenize(durable.messages[k].text) # <<>>)
               => durable.fts[k] # <<>>
        /\ \A i \in 1..Len(durable.fts[k]) :
               /\ k \in DOMAIN durable.messages
               /\ durable.fts[k][i] = tokenize(durable.messages[k].text)

\* C9: the page of a search with limit >= 0 holds min(limit, total) messages,
\* also when other coroutines run between the count query and the page query.
C9_PageAgreesWithTotal ==
    (res.op = "search_messages" /\ res.limit >= 0) =>
        Len(res.messages) = IF res.limit < res.total THEN res.limit ELSE res.total

-----------------------------------------------------------------------------
(* Properties of the match set and the page of search_messages.             *)

RECURSIVE SplitSpaces(_)
\* the terms of an index entry: its pieces between single spaces
SplitSpaces(s) ==
    IF s = <<>> THEN <<>>
    ELSE LET n == RunLen(s, {c \in {s[i] : i \in 1..Len(s)} : ~IsSpace(c)})
         IN  IF n = 0 THEN SplitSpaces(Tail(s))
             ELSE <<SubSeq(s, 1, n)>> \o SplitSpaces(SubSeq(s, n + 1, Len(s)))

\* the terms the entries of key k hold
EntryTerms(k) ==
    UNION {{SplitSpaces(fts[k][i])[j] : j \in 1..Len(SplitSpaces(fts[k][i]))} :
              i \in 1..Len(fts[k])}

\* the keys of the rows that have an entry holding every term of the query
\* and pass every filter given
Satisfying(query, group_id, date_from, date_to) ==
    {k \in DOMAIN messages :
        /\ fts[k] # <<>>
        /\ TermsOf(query) \subseteq EntryTerms(k)
        /\ group_id # None => k[2] = group_id[1]
        /\ date_from # None => fromisoformat(messages[k].timestamp).t >= date_from[1].t
        /\ date_to # None => fromisoformat(messages[k].timestamp).t <= date_to[1].t}

\* C11: a search with at least one query term counts in total exactly the
\* messages whose entry holds every query term and that pass the group,
\* date_from and date_to filters given, and returns none but these.
C11_ExactlyTheConjunction ==
    (res.op = "search_messages" /\ TermsOf(res.query) # {}) =>
        LET sat == Satisfying(res.query, res.group_id, res.date_from, res.date_to)
        IN  /\ res.total = Cardinality(sat)
            /\ \A i \in 1..Len(res.messages) : KeyOf(res.messages[i]) \in sat

-----------------------------------------------------------------------------
(* The store searched by date range: messages stored with and without the   *)
(* UTC offset, bounds given with and without it.                            *)

RangeMessages == MessagesOf({TextA}, Datetimes)
RangeBounds == {None} \cup {Some(dt) : dt \in Datetimes}

NextRange ==
    \/ \E msg \in RangeMessages : insert_message(msg)
    \/ \E date_from \in RangeBounds, date_to \in RangeBounds, limit \in Limits :
           search_messages(TextA, None, date_from, date_to, limit)

SpecRange == Init /\ [][NextRange]_vars

\* the keys of the rows the predicate of the last search selects
Matched ==
    {e[1] : e \in Joined(messages, fts, tokenize_query(res.query),
                         res.group_id, res.date_from, res.date_to)}

\* the keys of the messages the last search returned
InPage == {KeyOf(res.messages[i]) : i \in 1..Len(res.messages)}

\* C12: the messages of a page come newest first, and no message the search
\* matches and leaves out of the page is newer than a message of the page.
C12_NewestFirst ==
    res.op = "search_messages" =>
        /\ \A i, j \in 1..Len(res.messages) :
               i < j => res.messages[i].timestamp.t >= res.messages[j].timestamp.t
        /\ \A k \in Matched \ InPage : \A i \in 1..Len(res.messages) :
               fromisoformat(messages[k].timestamp).t <= res.messages[i].timestamp.t

\* a page of two messages of different instants that leaves a third match out
C12_Witness ==
    /\ res.op = "search_messages"
    /\ res.total = 3
    /\ Len(res.messages) = 2
    /\ res.messages[1].timestamp.t > res.messages[2].timestamp.t

\* C13: a search that returns all it counts returns a stored message holding
\* the query term exactly when its instant is not before date_from and not
\* after date_to, the instants of the bounds themselves included, whether
\* the timestamp was stored with or without the UTC offset.
C13_BoundsInclusive ==
    (res.op = "search_messages" /\ res.limit >= res.total) =>
        \A k \in Found(res.query) :
            k \in InPage <=>
                /\ res.date_from # None =>
                       fromisoformat(messages[k].timestamp).t >= res.date_from[1].t
                /\ res.date_to # None =>
                       fromisoformat(messages[k].timestamp).t <= res.date_to[1].t

-----------------------------------------------------------------------------
(* The database file written by the daemon's coroutines through their one   *)
(* connection and rebuilt by the reindex command, a process with a          *)
(* connection of its own.  SQLite's write lock lets the rebuild start only  *)
(* when no transaction of the daemon is open, and lets no insert of the     *)
(* daemon start before the rebuild has committed or rolled back.  The       *)
(* daemon's summarizer reads messages through the connection of the         *)
(* inserts.                                                                 *)

Reindexer == 0

ReindexPcs == {"reindex_select", "reindex_insert", "reindex_commit"}
ReindexInFlight == tasks[Reindexer].pc \in ReindexPcs

\* a statement of an open transaction with autocommit in its place
AfterStatementAutocommit(d, m, f) == Committed(m, f)

\* the durable database after a statement that left the tables m and f: the
\* connection runs its statements in a transaction that only commit() ends
AfterStatement(d, m, f) == d

\* get_messages_by_date_and_group: one statement
GetByDateStep(t, group_id, target_date) ==
    /\ At(t, "idle")
    /\ \E ret \in GetMessagesByDateAndGroup(messages, group_id, target_date) :
           res' = [op |-> "get_messages_by_date_and_group", group_id |-> group_id,
                   target_date |-> target_date, ret |-> ret]
    /\ UNCHANGED <<messages, fts, durable, tasks>>

\* reindex_all: DELETE FROM messages_fts
ReindexDeleteStep ==
    /\ AllIdle
    /\ fts' = SqlFtsDeleteAll(fts)
    /\ durable' = AfterStatement(durable, messages, fts')
    /\ Goto(Reindexer, [pc |-> "reindex_select"])
    /\ UNCHANGED <<messages, res>>

\* reindex_all: SELECT id, group_id, text FROM messages and fetchall; the
\* loop passes the rows without tokens with no await
ReindexSelectStep ==
    /\ At(Reindexer, "reindex_select")
    /\ Goto(Reindexer, [pc |-> IF ReindexTodo(messages) = {} THEN "reindex_commit"
                                ELSE "reindex_insert",
                        rows |-> messages, todo |-> ReindexTodo(messages), count |-> 0])
    /\ UNCHANGED <<messages, fts, durable, res>>

\* reindex_all: INSERT INTO messages_fts for the next row, in whatever order
\* the SELECT returned the rows
ReindexInsertStep ==
    /\ At(Reindexer, "reindex_insert")
    /\ \E k \in tasks[Reindexer].todo :
           /\ fts' = SqlFtsInsert(fts, k, tokenize(tasks[Reindexer].rows[k].text))
           /\ Goto(Reindexer,
                   [tasks[Reindexer] EXCEPT
                       !.pc = IF tasks[Reindexer].todo = {k} THEN "reindex_commit" ELSE @,
                       !.todo = @ \ {k},
                       !.count = @ + 1])
    /\ durable' = AfterStatement(durable, messages, fts')
    /\ UNCHANGED <<messages, res>>

\* reindex_all: commit and return count
ReindexCommitStep ==
    /\ At(Reindexer, "reindex_commit")
    /\ durable' = Committed(messages, fts)
    /\ res' = [op |-> "reindex_all", ret |-> tasks[Reindexer].count]
    /\ Goto(Reindexer, Idle)
    /\ UNCHANGED <<messages, fts>>

\* reindex_all raises at one of its awaits: run_reindex closes the connection
\* without a commit, which rolls the transaction back
ReindexRaise ==
    /\ ReindexInFlight
    /\ messages' = durable.messages
    /\ fts' = durable.fts
    /\ res' = [op |-> "reindex_all raised", at |-> tasks[Reindexer].pc]
    /\ Goto(Reindexer, Idle)
    /\ UNCHANGED durable

\* insert_message in the daemon: its first statement takes the write lock
DaemonInsertRowStep(t, msg) ==
    /\ ~ReindexInFlight
    /\ InsertRowStep(t, msg)

InitFile ==
    /\ messages = EmptyMessages
    /\ fts = EmptyFts
    /\ durable = Committed(EmptyMessages, EmptyFts)
    /\ res = NoCall
    /\ tasks = [t \in Tasks \cup {Reindexer} |-> Idle]

NextFile ==
    \/ \E t \in Tasks :
           \/ \E msg \in ConcMessages : DaemonInsertRowStep(t, msg)
           \/ FtsDeleteStep(t)
           \/ FtsInsertStep(t)
           \/ InsertCommitStep(t)
           \/ GetByDateStep(t, 1, 0)
    \/ ReindexDeleteStep
    \/ ReindexSelectStep
    \/ ReindexInsertStep
    \/ ReindexCommitStep
    \/ ReindexRaise
    \/ Crash

SpecFile == InitFile /\ [][NextFile]_vars

-----------------------------------------------------------------------------
(* Properties of the rebuild and of the daemon's writes and reads.          *)

\* tables m and f hold exactly one entry, tokenize(text), for every row whose
\* text has tokens, and no other entry
ExactIndex(m, f) ==
    \A k \in Keys :
        f[k] = IF k \in DOMAIN m /\ tokenize(m[k].text) # <<>>
               THEN <<tokenize(m[k].text)>>
               ELSE <<>>

\* the number of entries of f
EntryCount(f) == Cardinality(UNION {{<<k, i>> : i \in 1..Len(f[k])} : k \in Keys})

\* C14: when reindex_all has run its loop, and when it has returned,
\* messages_fts holds exactly one entry, tokenize(text), for every row with
\* tokens and no other entry, whatever it held before, and the count is the
\* number of entries written.
C14_RebuildExact ==
    /\ At(Reindexer, "reindex_commit") =>
           /\ ExactIndex(messages, fts)
           /\ tasks[Reindexer].count = EntryCount(fts)
    /\ res.op = "reindex_all" =>
           /\ ExactIndex(durable.messages, durable.fts)
           /\ res.ret = EntryCount(durable.fts)

\* a rebuild about to commit over an index that held two entries for one key
\* and none for a row with tokens
C14_Witness ==
    /\ At(Reindexer, "reindex_commit")
    /\ \E k \in Keys : Len(durable.fts[k]) >= 2
    /\ \E k \in DOMAIN durable.messages :
           tokenize(durable.messages[k].text) # <<>> /\ durable.fts[k] = <<>>

\* C15: a reindex_all that follows a reindex_all with no write in between
\* returns the count the first returned, and every search returns on the
\* store it leaves what it returned on the store the first left.
C15_RebuildTwice ==
    (At(Reindexer, "reindex_commit") /\ res.op = "reindex_all") =>
        /\ tasks[Reindexer].count = res.ret
        /\ \A q \in ConcQueries, limit \in Limits :
               SearchReturns(messages, fts, q, None, None, None, limit)
                   = SearchReturns(durable.messages, durable.fts, q, None, None, None, limit)

\* a second rebuild in a row, about to commit, of a store with two indexed rows
C15_Witness ==
    /\ At(Reindexer, "reindex_commit")
    /\ res.op = "reindex_all"
    /\ res.ret = 2
    /\ tasks[Reindexer].count = 2

\* C16: no step taken while reindex_all is between its DELETE and its commit,
\* a crash or an exception included, changes the durable database: the index
\* that was there before the rebuild stays until the rebuild commits.
C16_InterruptedRebuild ==
    [][(ReindexInFlight /\ ~ReindexCommitStep) => durable' = durable]_vars

\* a rebuild that raised in its loop, the durable index still holding entries
\* and the connection's emptied index discarded
C16_Witness ==
    /\ res.op = "reindex_all raised"
    /\ res.at = "reindex_insert"
    /\ fts = durable.fts
    /\ Cardinality({k \in Keys : durable.fts[k] # <<>>}) >= 2

\* C17: at most one write is between its first statement and its commit.
C17_WritesExclusive ==
    Cardinality({t \in DOMAIN tasks : tasks[t].pc \in {"fts_delete", "fts_insert", "commit"}}) <= 1

\* C18: every message get_messages_by_date_and_group returns whose text has
\* tokens is a committed row whose index entry is committed too.
C18_ReadsSeeCommitted ==
    [][(res'.op = "get_messages_by_date_and_group" /\ UNCHANGED <<messages, fts, durable, tasks>>) =>
          \A i \in 1..Len(res'.ret) :
              LET msg == res'.ret[i]
              IN  tokenize(msg.text) # <<>> =>
                      /\ KeyOf(msg) \in DOMAIN durable.messages
                      /\ AsMessage(durable.messages, KeyOf(msg)) = msg
                      /\ \E j \in 1..Len(durable.fts[KeyOf(msg)]) :
                             durable.fts[KeyOf(msg)][j] = tokenize(msg.text)]_vars

-----------------------------------------------------------------------------
(* tokenize_query on query strings of words, spaces, double quotes and      *)
(* characters of the FTS5 query syntax.                                     *)

QueryChars == {"a", " ", Quote, "*", "("}

\* the strings of at most n characters of QueryChars
QueryStrings(n) == UNION {[1..len -> QueryChars] : len \in 0..n}

\* a call of tokenize_query
TokenizeQueryCall(query) ==
    /\ res' = [op |-> "tokenize_query", query |-> query, ret |-> tokenize_query(query)]
    /\ UNCHANGED <<messages, fts, durable, tasks>>

NextQuery == \E query \in QueryStrings(MaxQueryLen) : TokenizeQueryCall(query)

SpecQuery == Init /\ [][NextQuery]_vars

RECURSIVE ClosesQuote(_)
\* s follows an opening quote and holds its closing quote: a quote that is
\* not the first of a doubled one
ClosesQuote(s) ==
    /\ s # <<>>
    /\ IF Head(s) = Quote
       THEN Len(s) >= 2 /\ s[2] = Quote => ClosesQuote(Tail(Tail(s)))
       ELSE ClosesQuote(Tail(s))

RECURSIVE OnlyQuotedTerms(_)
\* expr is nothing but quoted strings with one space between them
OnlyQuotedTerms(expr) ==
    \/ expr = <<>>
    \/ /\ Head(expr) = Quote
       /\ ClosesQuote(Tail(expr))
       /\ LET rest == SubSeq(expr, QuotedLen(Tail(expr)) + 2, Len(expr))
          IN  \/ rest = <<>>
              \/ /\ Len(rest) >= 2
                 /\ IsSpace(Head(rest))
                 /\ OnlyQuotedTerms(Tail(rest))

\* the terms of a query: its tokens stripped, the blank ones dropped
QueryTerms(query) ==
    LET tokens == cut_for_search(query)
    IN  SelectSeq([i \in 1..Len(tokens) |-> Strip(tokens[i])], LAMBDA t : t # <<>>)

\* C19: the MATCH expression of every query is nothing but quoted strings
\* separated by single spaces, and the engine reads in it exactly the terms
\* of the query as phrases: nothing of the query stands outside the quotes.
C19_QuotedTerms ==
    res.op = "tokenize_query" =>
        /\ OnlyQuotedTerms(res.ret)
        /\ Fts5Phrases(res.ret) = QueryTerms(res.query)

\* a query of a double quote, a word and a wildcard
C19_Witness ==
    /\ res.op = "tokenize_query"
    /\ res.query = <<Quote, "a", "*">>
    /\ res.ret = <<Quote, Quote, Quote, Quote, " ", Quote, "a", Quote, " ", Quote, "*", Quote>>

-----------------------------------------------------------------------------
(* Summarizer._format_messages_with_threads on the messages of one group    *)
(* and day.  A message is its id, its reply_to_msg_id (None or Some(id))    *)
(* and the instant of its timestamp; a rendered line is <<indent, id>>, the *)
(* empty line that ends a thread is <<>>.                                   *)

\* Python's truth value of reply_to_msg_id: None and 0 are false
Truthy(x) == x # None /\ x[1] # 0

\* the keys of msg_map
MsgIds(msgs) == {msgs[i].id : i \in 1..Len(msgs)}

\* the test without its lookup in msg_map (every reply taken to resolve)
InMapNoLookup(msg, msgs) == Truthy(msg.reply_to_msg_id)

\* msg.reply_to_msg_id and msg.reply_to_msg_id in msg_map
InMap(msg, msgs) ==
    Truthy(msg.reply_to_msg_id) /\ msg.reply_to_msg_id[1] \in MsgIds(msgs)

\* every message taken for a root
ThreadRootsAll(msgs) == msgs

\* the list roots
ThreadRoots(msgs) == SelectSeq(msgs, LAMBDA msg : ~InMap(msg, msgs))

\* the list children[id], in the order of the appends
ChildrenOf(msgs, id) ==
    SelectSeq(msgs, LAMBDA msg : InMap(msg, msgs) /\ msg.reply_to_msg_id[1] = id)

RECURSIVE SortedByTimestamp(_)
\* sorted(children[msg.id], key=lambda m: m.timestamp): a stable sort
SortedByTimestamp(list) ==
    IF list = <<>> THEN <<>>
    ELSE LET rest == SortedByTimestamp(Tail(list))
             before == SelectSeq(rest, LAMBDA m : m.timestamp < Head(list).timestamp)
             after == SelectSeq(rest, LAMBDA m : m.timestamp >= Head(list).timestamp)
         IN  before \o <<Head(list)>> \o after

\* the loop of _format_thread without its recursive call
FormatRepliesFlat(msgs, replies, indent) ==
    [i \in 1..Len(replies) |-> <<indent, replies[i].id>>]

\* prefix of _format_thread: two spaces a level, then the branch mark of a reply
Prefix(indent) ==
    [i \in 1..(2 * indent) |-> " "] \o (IF indent > 0 THEN <<"L", " ">> ELSE <<>>)

RECURSIVE FormatThread(_, _, _)
RECURSIVE FormatReplies(_, _, _)
\* build_thread and _format_thread of one message: its line, then the
\* threads of its replies one level deeper
FormatThread(msgs, msg, indent) ==
    << <<indent, msg.id>> >>
        \o FormatReplies(msgs, SortedByTimestamp(ChildrenOf(msgs, msg.id)), indent + 1)

\* the loop of _format_thread over thread.replies
FormatReplies(msgs, replies, indent) ==
    IF replies = <<>> THEN <<>>
    ELSE FormatThread(msgs, Head(replies), indent)
             \o FormatReplies(msgs, Tail(replies), indent)

RECURSIVE FormatThreads(_, _)
\* the loop over threads: every thread at indent 0, then an empty line
FormatThreads(msgs, roots) ==
    IF roots = <<>> THEN <<>>
    ELSE FormatThread(msgs, Head(roots), 0) \o << <<>> >>
             \o FormatThreads(msgs, Tail(roots))

\* the lines _format_messages_with_threads joins
FormatMessagesWithThreads(msgs) == FormatThreads(msgs, ThreadRoots(msgs))

\* the inputs: messages of distinct ids in ascending order of timestamp, as
\* get_messages_by_date_and_group returns them, a reply naming a message id
\* smaller than its own
MsgIdRange == 0..MaxMsgId
ThreadMessages ==
    {msg \in [id : MsgIdRange, reply_to_msg_id : {None} \cup {Some(n) : n \in MsgIdRange},
              timestamp : 0..(TicksPerDay - 1)] :
        msg.reply_to_msg_id # None => msg.reply_to_msg_id[1] < msg.id}
ThreadInputs ==
    {msgs \in UNION {[1..n -> ThreadMessages] : n \in 0..MaxMsgs} :
        /\ \A i, j \in 1..Len(msgs) : i < j => msgs[i].id # msgs[j].id
        /\ \A i, j \in 1..Len(msgs) : i < j => msgs[i].timestamp <= msgs[j].timestamp}

\* a call of _format_messages_with_threads
FormatCall(msgs) ==
    /\ res' = [op |-> "_format_messages_with_threads", messages |-> msgs,
               lines |-> FormatMessagesWithThreads(msgs)]
    /\ UNCHANGED <<messages, fts, durable, tasks>>

NextThreads == \E msgs \in ThreadInputs : FormatCall(msgs)

SpecThreads == Init /\ [][NextThreads]_vars

\* the places of the lines of message id
LinesOf(lines, id) == {i \in 1..Len(lines) : lines[i] # <<>> /\ lines[i][2] = id}

\* the line a line at depth > 0 hangs under: the last line before it that is
\* one level less deep
ParentLine(lines, i) ==
    LET above == {j \in 1..(i - 1) : lines[j] # <<>> /\ lines[j][1] = lines[i][1] - 1}
    IN  CHOOSE j \in above : \A h \in above : h <= j

\* msg has a reply target that is the id of a message of the input
Resolves(msg, msgs) ==
    msg.reply_to_msg_id # None /\ msg.reply_to_msg_id[1] \in MsgIds(msgs)

\* every message has one line; the line is at depth 0 if and only if the
\* message has no reply target or its target is no id of the input, and else
\* hangs directly under the line of the message its target names
RootsAndChildren(msgs, lines) ==
    \A n \in 1..Len(msgs) :
        /\ Cardinality(LinesOf(lines, msgs[n].id)) = 1
        /\ \A i \in LinesOf(lines, msgs[n].id) :
               /\ lines[i][1] = 0 <=> ~Resolves(msgs[n], msgs)
               /\ lines[i][1] > 0 =>
                      /\ \E j \in 1..(i - 1) : lines[j] # <<>> /\ lines[j][1] = lines[i][1] - 1
                      /\ lines[ParentLine(lines, i)][2] = msgs[n].reply_to_msg_id[1]

\* C20: for all message ids, the roots are the messages without a reply
\* target that is an id of the input, and every other message is a direct
\* child of the message its target names.
C20_RootsAndChildrenAllIds ==
    res.op = "_format_messages_with_threads" =>
        RootsAndChildren(res.messages, res.lines)

\* the same property of the inputs in which no reply target is 0
RootsAndChildrenNoZero ==
    (res.op = "_format_messages_with_threads"
       /\ \A n \in 1..Len(res.messages) : res.messages[n].reply_to_msg_id # Some(0)) =>
        RootsAndChildren(res.messages, res.lines)

\* a reply to a message that is not in the input, rendered as a root with a
\* reply of its own under it
OutOfScopeReplyIsRoot ==
    /\ res.op = "_format_messages_with_threads"
    /\ Len(res.messages) = 2
    /\ res.messages[1].reply_to_msg_id = Some(1)
    /\ res.lines = << <<0, 2>>, <<1, 3>>, <<>> >>

-----------------------------------------------------------------------------
(* _format_messages_with_threads on the messages the collector stores: the  *)
(* ids Telegram issues are positive.                                        *)

ScopeInputs == {msgs \in ThreadInputs : 0 \notin MsgIds(msgs)}

NextScope == \E msgs \in ScopeInputs : FormatCall(msgs)

SpecScope == Init /\ [][NextScope]_vars

\* the message of the input with the given id
MsgOfId(msgs, id) == msgs[CHOOSE n \in 1..Len(msgs) : msgs[n].id = id]

RECURSIVE AncestorCount(_, _)
\* the number of messages of the input reached from msg by following reply
\* targets
AncestorCount(msgs, msg) ==
    IF Resolves(msg, msgs)
    THEN 1 + AncestorCount(msgs, MsgOfId(msgs, msg.reply_to_msg_id[1]))
    ELSE 0

\* the input without its n-th message
Without(msgs, n) == SubSeq(msgs, 1, n - 1) \o SubSeq(msgs, n + 1, Len(msgs))

\* the lines of the subtree under line i, line i included, depths counted
\* from line i
SubtreeOf(lines, i) ==
    LET last == CHOOSE j \in i..Len(lines) :
                    /\ \A h \in (i + 1)..j : lines[h] # <<>> /\ lines[h][1] > lines[i][1]
                    /\ j < Len(lines) =>
                           lines[j + 1] = <<>> \/ lines[j + 1][1] <= lines[i][1]
    IN  [h \in 1..(last - i + 1) |->
            <<lines[i + h - 1][1] - lines[i][1], lines[i + h - 1][2]>>]

\* the place of the one line of message id
LineOf(lines, id) == CHOOSE i \in 1..Len(lines) : lines[i] # <<>> /\ lines[i][2] = id

\* C21: every message has one line, at a depth that is the number of its
\* ancestors in the input; and in the text of the input without one of its
\* messages every direct replier of that message is a root, with the subtree
\* it had.
C21_DepthAndRemoval ==
    res.op = "_format_messages_with_threads" =>
        LET msgs == res.messages
        IN  /\ \A n \in 1..Len(msgs) :
                   /\ Cardinality(LinesOf(res.lines, msgs[n].id)) = 1
                   /\ res.lines[LineOf(res.lines, msgs[n].id)][1] = AncestorCount(msgs, msgs[n])
            /\ \A n \in 1..Len(msgs) :
                   LET rest == Without(msgs, n)
                       lines == FormatMessagesWithThreads(rest)
                   IN  \A r \in 1..Len(rest) :
                           rest[r].reply_to_msg_id = Some(msgs[n].id) =>
                               /\ Cardinality(LinesOf(lines, rest[r].id)) = 1
                               /\ lines[LineOf(lines, rest[r].id)][1] = 0
                               /\ SubtreeOf(lines, LineOf(lines, rest[r].id))
                                      = SubtreeOf(res.lines, LineOf(res.lines, rest[r].id))

\* the chain A, B replying to A, C replying to B
C21_Witness ==
    /\ res.op = "_format_messages_with_threads"
    /\ res.lines = << <<0, 1>>, <<1, 2>>, <<2, 3>>, <<>> >>
    /\ FormatMessagesWithThreads(Without(res.messages, 1)) = << <<0, 2>>, <<1, 3>>, <<>> >>

\* the ids of the lines at depth 0, in the order of the lines
RootLineIds(lines) ==
    LET roots == SelectSeq(lines, LAMBDA l : l # <<>> /\ l[1] = 0)
    IN  [i \in 1..Len(roots) |-> roots[i][2]]

\* the ids of the messages of the input that have no reply target in it
RootIds(msgs) ==
    LET roots == SelectSeq(msgs, LAMBDA msg : ~Resolves(msg, msgs))
    IN  [i \in 1..Len(roots) |-> roots[i].id]

\* C22: the lines are a pre-order walk: the roots come in input order; a line
\* below depth 0 follows a line at most one level less deep than itself and
\* hangs under the line of its reply target; the replies under one line come
\* in ascending order of timestamp; the prefix of a line is two spaces for
\* every level of its depth; every thread ends with one empty line.
C22_PreOrder ==
    res.op = "_format_messages_with_threads" =>
        LET msgs == res.messages
            lines == res.lines
        IN  /\ \A n \in 1..Len(msgs) : Cardinality(LinesOf(lines, msgs[n].id)) = 1
            /\ Cardinality({i \in 1..Len(lines) : lines[i] # <<>>}) = Len(msgs)
            /\ RootLineIds(lines) = RootIds(msgs)
            /\ \A i \in 1..Len(lines) :
                   (lines[i] # <<>> /\ lines[i][1] > 0) =>
                       /\ i > 1 /\ lines[i - 1] # <<>> /\ lines[i][1] <= lines[i - 1][1] + 1
                       /\ Some(lines[ParentLine(lines, i)][2])
                              = MsgOfId(msgs, lines[i][2]).reply_to_msg_id
            /\ \A i, j \in 1..Len(lines) :
                   (/\ i < j
                    /\ lines[i] # <<>> /\ lines[j] # <<>>
                    /\ lines[i][1] > 0 /\ lines[i][1] = lines[j][1]
                    /\ ParentLine(lines, i) = ParentLine(lines, j)) =>
                       MsgOfId(msgs, lines[i][2]).timestamp <= MsgOfId(msgs, lines[j][2]).timestamp
            /\ \A i \in 1..Len(lines) :
                   lines[i] # <<>> =>
                       RunLen(Prefix(lines[i][1]), {" "})
                           = 2 * AncestorCount(msgs, MsgOfId(msgs, lines[i][2]))
            /\ \A i \in 1..Len(lines) :
                   /\ (lines[i] # <<>> /\ lines[i][1] = 0 /\ i > 1) => lines[i - 1] = <<>>
                   /\ lines[i] = <<>> => (i > 1 /\ lines[i - 1] # <<>>)
                   /\ (lines[i] = <<>> /\ i < Len(lines)) => lines[i + 1][1] = 0
            /\ lines # <<>> => lines[Len(lines)] = <<>>

\* two roots, the reply to the first rendered before the second root that
\* precedes it in the input
C22_Witness ==
    /\ res.op = "_format_messages_with_threads"
    /\ [n \in 1..Len(res.messages) |-> res.messages[n].id] = <<1, 2, 3>>
    /\ res.lines = << <<0, 1>>, <<1, 3>>, <<>>, <<0, 2>>, <<>> >>

-----------------------------------------------------------------------------
(* The store read by group and calendar day: messages stamped with any      *)
(* instant of a day, the last one included, with and without the UTC        *)
(* offset.                                                                  *)

\* Database.get_messages_by_date_and_group
get_messages_by_date_and_group(group_id, target_date) ==
    /\ AllIdle
    /\ \E ret \in GetMessagesByDateAndGroup(messages, group_id, target_date) :
           res' = [op |-> "get_messages_by_date_and_group", group_id |-> group_id,
                   target_date |-> target_date, ret |-> ret]
    /\ UNCHANGED <<messages, fts, durable, tasks>>

DayDatetimes == [t : 0..(TicksPerDay * (MaxDay + 1) - 1), utc : BOOLEAN]
DayMessages == MessagesOf({TextA}, DayDatetimes)

NextDay ==
    \/ \E msg \in DayMessages : insert_message(msg)
    \/ \E group_id \in Groups, target_date \in Days :
           get_messages_by_date_and_group(group_id, target_date)

SpecDay == Init /\ [][NextDay]_vars

\* the keys of the rows of group g stamped with an instant of day d
KeysOfDay(g, d) ==
    {k \in DOMAIN messages :
        /\ k[2] = g
        /\ fromisoformat(messages[k].timestamp).t >= DayStart(d).t
        /\ fromisoformat(messages[k].timestamp).t <= DayEnd(d).t}

\* C23: get_messages_by_date_and_group(g, d) returns each stored message of
\* group g whose instant lies from the first to the last instant of day d,
\* once, and no other message, in ascending order of instant.
C23_DayOfGroup ==
    res.op = "get_messages_by_date_and_group" =>
        /\ {KeyOf(res.ret[i]) : i \in 1..Len(res.ret)} = KeysOfDay(res.group_id, res.target_date)
        /\ Len(res.ret) = Cardinality(KeysOfDay(res.group_id, res.target_date))
        /\ \A i \in 1..Len(res.ret) : res.ret[i] = AsMessage(messages, KeyOf(res.ret[i]))
        /\ \A i, j \in 1..Len(res.ret) :
               i < j => res.ret[i].timestamp.t <= res.ret[j].timestamp.t

-----------------------------------------------------------------------------
(* The command entry points of __main__.py.  An entry point is the sequence *)
(* of its calls that can raise, each one before the try statement, in its   *)
(* body or in its finally clause.  An exception raised before the try or in *)
(* the finally clause leaves the entry point at once; one raised in the     *)
(* body runs the finally clause first.                                      *)

Call(name, zone) == [name |-> name, zone |-> zone]

run_daemon ==
    << Call("db.connect", "before"), Call("collector.start", "before"),
       Call("scheduler.start", "before"), Call("stop_event.wait", "try"),
       Call("scheduler.stop", "finally"), Call("collector.stop", "finally"),
       Call("db.close", "finally") >>

run_summary ==
    << Call("db.connect", "before"), Call("collector.start", "before"),
       Call("scheduler.run_manual_summary", "try"),
       Call("collector.stop", "finally"), Call("db.close", "finally") >>

run_purge ==
    << Call("db.connect", "before"), Call("db.purge_messages_before", "try"),
       Call("db.close", "finally") >>

run_search ==
    << Call("db.connect", "before"), Call("db.search_messages", "try"),
       Call("db.close", "finally") >>

run_reindex ==
    << Call("db.connect", "before"), Call("db.reindex_all", "try"),
       Call("db.close", "finally") >>

Commands == {"run_daemon", "run_summary", "run_purge", "run_search", "run_reindex"}

CallsOf(command) ==
    CASE command = "run_daemon" -> run_daemon
      [] command = "run_summary" -> run_summary
      [] command = "run_purge" -> run_purge
      [] command = "run_search" -> run_search
      [] command = "run_reindex" -> run_reindex

\* the place of the first call of the finally clause
FirstFinally(calls) == CHOOSE n \in 1..Len(calls) :
    calls[n].zone = "finally" /\ \A h \in 1..(n - 1) : calls[h].zone # "finally"

\* the entry point is entered
EnterCommand(command) ==
    /\ At(1, "idle")
    /\ tasks' = << [pc |-> "run", command |-> command, at |-> 1, raising |-> FALSE,
                    connected |-> FALSE, closed |-> FALSE] >>
    /\ UNCHANGED <<messages, fts, durable, res>>

\* the flags after the call at hand was made: Database.connect has succeeded,
\* Database.close was called
AfterCall(task, call, raised) ==
    [task EXCEPT !.connected = @ \/ (call.name = "db.connect" /\ ~raised),
                 !.closed = @ \/ call.name = "db.close"]

\* the call at hand returns
CallReturns ==
    /\ At(1, "run")
    /\ LET task == tasks[1]
           calls == CallsOf(task.command)
           call == calls[task.at]
       IN  tasks' = << [AfterCall(task, call, FALSE) EXCEPT
                           !.at = @ + 1,
                           !.pc = IF task.at = Len(calls) THEN "exit" ELSE "run"] >>
    /\ UNCHANGED <<messages, fts, durable, res>>

\* the call at hand raises
CallRaises ==
    /\ At(1, "run")
    /\ LET task == tasks[1]
           calls == CallsOf(task.command)
           call == calls[task.at]
       IN  tasks' = << [AfterCall(task, call, TRUE) EXCEPT
                           !.raising = TRUE,
                           !.at = IF call.zone = "try" THEN FirstFinally(calls) ELSE @,
                           !.pc = IF call.zone = "try" THEN "run" ELSE "exit"] >>
    /\ UNCHANGED <<messages, fts, durable, res>>

\* the entry point returns, or raises the exception in flight
LeaveCommand ==
    /\ At(1, "exit")
    /\ res' = [op |-> tasks[1].command,
               outcome |-> IF tasks[1].raising THEN "raised" ELSE "returned",
               connected |-> tasks[1].connected, closed |-> tasks[1].closed]
    /\ tasks' = <<Idle>>
    /\ UNCHANGED <<messages, fts, durable>>

InitMain ==
    /\ messages = EmptyMessages
    /\ fts = EmptyFts
    /\ durable = Committed(EmptyMessages, EmptyFts)
    /\ res = NoCall
    /\ tasks = <<Idle>>

NextMain ==
    \/ \E command \in Commands : EnterCommand(command)
    \/ CallReturns
    \/ CallRaises
    \/ LeaveCommand

SpecMain == InitMain /\ [][NextMain]_vars

\* C24: an entry point that has left after Database.connect succeeded has
\* called Database.close, whether it returned or raised.
C24_ClosedOnEveryExit ==
    (res.op \in Commands /\ res.connected) => res.closed

-----------------------------------------------------------------------------
(* Summarizer._resolve_prompt.  A prompt is a string, a sequence of          *)
(* characters; a configured prompt is None or Some(string).  The file        *)
(* system gives for a path Some(content), or None when reading it fails;     *)
(* a path it does not know cannot be read either.                            *)

\* stands for the text of DEFAULT_PROMPT
DEFAULT_PROMPT == <<"D">>

FilePrefix == <<"f", "i", "l", "e", ":">>

\* str.startswith
StartsWith(s, prefix) ==
    Len(s) >= Len(prefix) /\ SubSeq(s, 1, Len(prefix)) = prefix

\* `a or b` as if only None were false
PromptOrNotNone(a, b) == IF a # None THEN a[1] ELSE b

\* `a or b` for a: str | None: None and the empty string are both false
PromptOr(a, b) == IF a # None /\ a[1] # <<>> THEN a[1] ELSE b

resolve_prompt(group_prompt, summary_prompt, files) ==
    LET raw == PromptOr(group_prompt, PromptOr(summary_prompt, DEFAULT_PROMPT))
        path == SubSeq(raw, Len(FilePrefix) + 1, Len(raw))
    IN  IF ~StartsWith(raw, FilePrefix) THEN [raised |-> FALSE, ret |-> raw]
        ELSE IF path \in DOMAIN files /\ files[path] # None
             THEN [raised |-> FALSE, ret |-> files[path][1]]
             ELSE [raised |-> TRUE, ret |-> <<>>]

Prompts ==
    {None, Some(<<>>), Some(<<"G">>), Some(<<"S">>), Some(<<"f", "i", "l", "e">>),
     Some(FilePrefix \o <<"p">>), Some(FilePrefix \o <<"q">>)}

FileSystems ==
    [{<<"p">>} -> {None, Some(<<"F">>), Some(FilePrefix \o <<"p">>)}]

ResolvePromptCall ==
    /\ AllIdle
    /\ \E group_prompt \in Prompts, summary_prompt \in Prompts, files \in FileSystems :
         res' = [op |-> "_resolve_prompt", group_prompt |-> group_prompt,
                 summary_prompt |-> summary_prompt, files |-> files,
                 out |-> resolve_prompt(group_prompt, summary_prompt, files)]
    /\ UNCHANGED <<messages, fts, durable, tasks>>

SpecPrompt == Init /\ [][ResolvePromptCall]_vars

\* the file a value names can be read
Readable(files, raw) ==
    LET path == SubSeq(raw, Len(FilePrefix) + 1, Len(raw))
    IN  path \in DOMAIN files /\ files[path] # None

\* the result of the last call is what the chosen value asks for: the value
\* itself, or the content of the file it names, or an error when that file
\* cannot be read
ResultFollows(chosen) ==
    IF ~StartsWith(chosen, FilePrefix)
    THEN ~res.out.raised /\ res.out.ret = chosen
    ELSE IF Readable(res.files, chosen)
         THEN ~res.out.raised
              /\ res.out.ret =
                   res.files[SubSeq(chosen, Len(FilePrefix) + 1, Len(chosen))][1]
         ELSE res.out.raised

\* C25, as stated: the chosen value is the group's prompt when it is set (not
\* None), otherwise the global summary prompt when it is set, otherwise
\* DEFAULT_PROMPT; a value starting with "file:" gives the content of that
\* file, and a file that cannot be read gives an error, never a lower prompt.
C25_StrictPriority ==
    res.op = "_resolve_prompt" =>
        ResultFollows(IF res.group_prompt # None THEN res.group_prompt[1]
                      ELSE IF res.summary_prompt # None THEN res.summary_prompt[1]
                      ELSE DEFAULT_PROMPT)

\* a configured prompt that is not the empty string
NonEmpty(prompt) == prompt # None /\ prompt[1] # <<>>

\* C25, amended: the same with "set" read as "set to a non-empty string"; an
\* empty group prompt gives way to the global prompt and an empty global
\* prompt to DEFAULT_PROMPT.
C25_PriorityOfNonEmpty ==
    res.op = "_resolve_prompt" =>
        ResultFollows(IF NonEmpty(res.group_prompt) THEN res.group_prompt[1]
                      ELSE IF NonEmpty(res.summary_prompt) THEN res.summary_prompt[1]
                      ELSE DEFAULT_PROMPT)

\* an empty group prompt gave way to the global prompt, which named a file
\* that could not be read: the call raised
C25_Witness ==
    /\ res.op = "_resolve_prompt"
    /\ res.group_prompt = Some(<<>>)
    /\ res.summary_prompt = Some(FilePrefix \o <<"p">>)
    /\ res.files[<<"p">>] = None
    /\ res.out.raised

-----------------------------------------------------------------------------
(* SafeFormatter.format: string.Formatter.vformat with the get_value of     *)
(* SafeFormatter, called with keyword arguments only.  The one keyword      *)
(* argument is k = "V".  A format string is a sequence of characters; in a  *)
(* replacement field "." starts an attribute name and ":" a format spec.    *)

MaxTemplateLen == 5

\* SafeFormatter.get_value for a str key: kwargs.get(key, "{" + key + "}")
get_value(key, kwargs) ==
    IF key \in DOMAIN kwargs THEN kwargs[key] ELSE <<"{">> \o key \o <<"}">>

\* the first place from i on where s holds c, 0 when there is none
FirstOf(s, c, i) ==
    LET hits == {j \in i..Len(s) : s[j] = c}
    IN  IF hits = {} THEN 0 ELSE CHOOSE j \in hits : \A h \in hits : j <= h

\* Formatter.get_field, convert_field and format_field for one replacement
\* field.  These raise: an empty field name, which is the positional
\* argument 0 and there is none (IndexError); an attribute of the str that
\* get_value gave (AttributeError, ValueError for an empty attribute); a
\* "{" in the field name (ValueError); a format spec that is not empty,
\* since none made of these characters or of the values at hand is one a
\* str accepts (ValueError).
format_field(field, kwargs) ==
    LET colon == FirstOf(field, ":", 1)
        field_name == IF colon = 0 THEN field ELSE SubSeq(field, 1, colon - 1)
        format_spec == IF colon = 0 THEN <<>> ELSE SubSeq(field, colon + 1, Len(field))
    IN  IF \/ field_name = <<>>
           \/ FirstOf(field_name, ".", 1) # 0
           \/ FirstOf(field, "{", 1) # 0
           \/ format_spec # <<>>
        THEN [raised |-> TRUE, ret |-> <<>>]
        ELSE [raised |-> FALSE, ret |-> get_value(field_name, kwargs)]

RECURSIVE vformat(_, _, _)
\* Formatter._vformat over the output of Formatter.parse, from place i on:
\* "{{" and "}}" are literal braces, a single "}" and a "{" that is not
\* closed raise ValueError, "{" opens a replacement field
vformat(s, i, kwargs) ==
    LET Then(text, next) ==
            LET rest == vformat(s, next, kwargs)
            IN  [raised |-> rest.raised,
                 ret |-> IF rest.raised THEN <<>> ELSE text \o rest.ret]
        Raise == [raised |-> TRUE, ret |-> <<>>]
        close == FirstOf(s, "}", i + 1)
        doubled == i < Len(s) /\ s[i + 1] = s[i]
    IN  IF i > Len(s) THEN [raised |-> FALSE, ret |-> <<>>]
        ELSE IF s[i] \in {"{", "}"} /\ doubled THEN Then(<<s[i]>>, i + 2)
        ELSE IF s[i] = "}" THEN Raise
        ELSE IF s[i] # "{" THEN Then(<<s[i]>>, i + 1)
        ELSE IF close = 0 THEN Raise
        ELSE LET value == format_field(SubSeq(s, i + 1, close - 1), kwargs)
             IN  IF value.raised THEN Raise ELSE Then(value.ret, close + 1)

\* fmt.format(format_string, k="V") for the format string at hand
SafeFormatterFormat ==
    /\ res.op = "format_string"
    /\ res' = [op |-> "SafeFormatter.format", format_string |-> res.format_string,
               out |-> vformat(res.format_string, 1, <<"k">> :> <<"V">>)]
    /\ UNCHANGED <<messages, fts, durable, tasks>>

\* any format string of the characters at hand is the one to format
InitFormat ==
    /\ messages = EmptyMessages
    /\ fts = EmptyFts
    /\ durable = Committed(EmptyMessages, EmptyFts)
    /\ tasks = <<Idle>>
    /\ \E n \in 0..MaxTemplateLen :
         \E format_string \in [1..n -> {"{", "}", "k", "u", ".", ":"}] :
           res = [op |-> "format_string", format_string |-> format_string]

SpecFormat == InitFormat /\ [][SafeFormatterFormat]_vars

RECURSIVE OnlyPlaceholders(_, _)
\* from place i on every brace of s is half of a doubled brace or encloses
\* a placeholder {name} with a name that is not empty and holds no brace
OnlyPlaceholders(s, i) ==
    LET close == FirstOf(s, "}", i + 1)
    IN  IF i > Len(s) THEN TRUE
        ELSE IF s[i] \in {"{", "}"} /\ i < Len(s) /\ s[i + 1] = s[i]
             THEN OnlyPlaceholders(s, i + 2)
        ELSE IF s[i] = "}" THEN FALSE
        ELSE IF s[i] # "{" THEN OnlyPlaceholders(s, i + 1)
        ELSE /\ close > i + 1
             /\ FirstOf(SubSeq(s, i + 1, close - 1), "{", 1) = 0
             /\ OnlyPlaceholders(s, close + 1)

RECURSIVE Replaced(_, _)
\* s from place i on with the placeholder {k} replaced by V, every other
\* placeholder left as it is and doubled braces turned into single ones
Replaced(s, i) ==
    LET close == FirstOf(s, "}", i + 1)
    IN  IF i > Len(s) THEN <<>>
        ELSE IF s[i] \in {"{", "}"} /\ i < Len(s) /\ s[i + 1] = s[i]
             THEN <<s[i]>> \o Replaced(s, i + 2)
        ELSE IF s[i] # "{" THEN <<s[i]>> \o Replaced(s, i + 1)
        ELSE (IF SubSeq(s, i + 1, close - 1) = <<"k">>
              THEN <<"V">> ELSE SubSeq(s, i, close)) \o Replaced(s, close + 1)

\* C26: a format string made of text, doubled braces and placeholders is
\* formatted without an error, and the result has the value for every
\* placeholder named by a keyword argument, every other placeholder
\* unchanged and a single brace for every doubled one.
C26_UnknownKeptNeverRaises ==
    (res.op = "SafeFormatter.format" /\ OnlyPlaceholders(res.format_string, 1)) =>
        /\ ~res.out.raised
        /\ res.out.ret = Replaced(res.format_string, 1)

\* the same holds of the format strings whose placeholders are plain names,
\* without an attribute and without a format spec
PlainNamesFormatted ==
    (/\ res.op = "SafeFormatter.format"
     /\ OnlyPlaceholders(res.format_string, 1)
     /\ FirstOf(res.format_string, ".", 1) = 0
     /\ FirstOf(res.format_string, ":", 1) = 0) =>
        /\ ~res.out.raised
        /\ res.out.ret = Replaced(res.format_string, 1)

-----------------------------------------------------------------------------
(* What the calls leave alone, on the store used by one caller at a time.   *)

\* C27: purge_messages_before(d) leaves every row stamped at or after
\* 00:00:00 of d as it is, and its entries in messages_fts as well; so a
\* message stamped exactly 00:00:00 of d is kept.
C27_PurgeKeepsFromStart ==
    [][res'.op = "purge_messages_before" =>
          \A k \in DOMAIN messages :
              fromisoformat(messages[k].timestamp).t >= DayStart(res'.before_date).t =>
                  /\ k \in DOMAIN messages'
                  /\ messages'[k] = messages[k]
                  /\ fts'[k] = fts[k]]_vars

\* a purge that removed a message and kept an indexed one stamped 00:00:00 of
\* the cutoff day, with no offset
C27_Witness ==
    /\ res.op = "purge_messages_before"
    /\ res.ret >= 1
    /\ \E k \in DOMAIN messages :
           /\ messages[k].timestamp = isoformat(DayStart(res.before_date))
           /\ fts[k] # <<>>

\* C28: insert_message(m) leaves the row and the entries of every key other
\* than (m.id, m.group_id) as they are, a key with the id of m in another
\* group included, and get_message_by_id(g, id) answers for every such key
\* what it answered before, and in every state the record of (id, g) or None.
C28_InsertTouchesOneKey ==
    /\ [][res'.op = "insert_message" =>
             \A k \in Keys \ {KeyOf(res'.msg)} :
                 /\ k \in DOMAIN messages' <=> k \in DOMAIN messages
                 /\ k \in DOMAIN messages => messages'[k] = messages[k]
                 /\ fts'[k] = fts[k]
                 /\ GetMessageById(messages', k[2], k[1])
                        = GetMessageById(messages, k[2], k[1])]_vars
    /\ [](\A k \in Keys :
             LET ret == GetMessageById(messages, k[2], k[1])
             IN  IF k \in DOMAIN messages
                 THEN /\ ret # None
                      /\ ret[1].id = k[1] /\ ret[1].group_id = k[2]
                      /\ ret[1].text = messages[k].text
                 ELSE ret = None)

\* a message was inserted with the id of an indexed message of another group,
\* whose text differs
C28_Witness ==
    /\ res.op = "insert_message"
    /\ \E k \in DOMAIN messages :
           /\ k[1] = res.msg.id
           /\ k[2] # res.msg.group_id
           /\ fts[k] # <<>>
           /\ messages[k].text # res.msg.text
           /\ fts[KeyOf(res.msg)] # <<>>

-----------------------------------------------------------------------------
(* One coroutine on the connection: insert_message call after call, each    *)
(* one statement at a time.  A statement of _index_message may raise; the   *)
(* process may die at any point.                                            *)

\* a statement of _index_message raises: insert_message has no handler and
\* no rollback, the exception goes to the caller and the connection stays
\* open with its transaction
InsertRaise(t) ==
    /\ tasks[t].pc \in {"fts_delete", "fts_insert"}
    /\ res' = [op |-> "insert_message raised", msg |-> tasks[t].msg]
    /\ Goto(t, Idle)
    /\ UNCHANGED <<messages, fts, durable>>

InitOne ==
    /\ messages = EmptyMessages
    /\ fts = EmptyFts
    /\ durable = Committed(EmptyMessages, EmptyFts)
    /\ res = NoCall
    /\ tasks = <<Idle>>

NextOne ==
    \/ \E msg \in ConcMessages : InsertRowStep(1, msg)
    \/ FtsDeleteStep(1)
    \/ FtsInsertStep(1)
    \/ InsertCommitStep(1)
    \/ InsertRaise(1)
    \/ Crash

SpecOne == InitOne /\ [][NextOne]_vars

\* the step is the commit of the call in flight
CommitsInsert == At(1, "commit") /\ res'.op = "insert_message"

\* the durable table messages holds the row that insert_message(msg) writes
RowDurable(msg) ==
    /\ KeyOf(msg) \in DOMAIN durable.messages
    /\ durable.messages[KeyOf(msg)] = RowOf(msg)

\* C29: with one insert_message in flight and nothing else, no step before
\* its commit changes the durable store, so a crash before the commit leaves
\* the store that was durable before the call; the commit makes the row and
\* the index entries of the key durable, and a crash after it keeps them.
C29_InsertAtomic ==
    /\ [][~CommitsInsert => durable' = durable]_vars
    /\ [][CommitsInsert =>
             LET msg == tasks[1].msg
             IN  /\ durable'.messages[KeyOf(msg)] = RowOf(msg)
                 /\ durable'.fts[KeyOf(msg)] = fts[KeyOf(msg)]
                 /\ tokenize(msg.text) # <<>> =>
                        durable'.fts[KeyOf(msg)] = <<tokenize(msg.text)>>]_vars
    /\ []((res.op = "crash" /\ At(1, "idle")) =>
             (messages = durable.messages /\ fts = durable.fts))

\* an insert_message is about to commit a row and an entry that are not
\* durable yet, after an earlier call has committed
C29_Witness ==
    /\ At(1, "commit")
    /\ KeyOf(tasks[1].msg) \notin DOMAIN durable.messages
    /\ KeyOf(tasks[1].msg) \in DOMAIN messages
    /\ fts[KeyOf(tasks[1].msg)] # <<>>
    /\ durable.messages # EmptyMessages

\* C30: the row written by an insert_message that then raised does not
\* become durable, whatever comes next on the connection, unless a later
\* insert_message writes the row of that key again.
C30_RaisedRowNeverDurable ==
    [][(/\ res.op = "insert_message raised"
        /\ ~RowDurable(res.msg)
        /\ ~(res'.op = "insert_message" /\ KeyOf(res'.msg) = KeyOf(res.msg)))
       => ~(/\ KeyOf(res.msg) \in DOMAIN durable'.messages
            /\ durable'.messages[KeyOf(res.msg)] = RowOf(res.msg))]_vars

-----------------------------------------------------------------------------
(* reindex_all and one coroutine of insert_message calls on one connection: *)
(* nothing in Database keeps an insert_message from running between the     *)
(* awaits of reindex_all.  The texts all have tokens.                       *)

NextShared ==
    \/ \E msg \in MessagesOf({TextA, TextBA}, {DayStart(0)}) :
           msg.group_id = 1 /\ InsertRowStep(1, msg)
    \/ FtsDeleteStep(1)
    \/ FtsInsertStep(1)
    \/ InsertCommitStep(1)
    \/ ReindexDeleteStep
    \/ ReindexSelectStep
    \/ ReindexInsertStep
    \/ ReindexCommitStep

SpecShared == InitFile /\ [][NextShared]_vars

\* C31: when reindex_all and the insert_message calls that ran between its
\* awaits have all completed, messages_fts holds at most one entry for every
\* key, every entry is tokenize of the current text of its key, and no page
\* of a search holds a message twice.
C31_OneEntryAfterInterleaving ==
    AllIdle =>
        /\ \A k \in Keys :
               /\ Len(fts[k]) <= 1
               /\ \A i \in 1..Len(fts[k]) :
                      k \in DOMAIN messages /\ fts[k][i] = tokenize(messages[k].text)
        /\ \A page \in SqlPages(messages, fts, tokenize_query(TextA), None, None, None, -1) :
               \A i, j \in 1..Len(page) : i # j => page[i][1] # page[j][1]

-----------------------------------------------------------------------------
(* _format_messages_with_threads one recursive call at a time, on inputs    *)
(* in which a reply may name any id: its own, a later one, one of a cycle.  *)
(* The stack holds the lines still to come, <<indent, id>> for a message    *)
(* whose build_thread and _format_thread are pending and <<>> for the empty *)
(* line after a thread.  summarize_group passes no empty list.              *)

CycleInputs ==
    {msgs \in UNION {[1..n -> [id : 1..MaxMsgId,
                               reply_to_msg_id : {None} \cup {Some(r) : r \in 1..MaxMsgId},
                               timestamp : 0..(TicksPerDay - 1)]] : n \in 1..MaxMsgs} :
        /\ \A i, j \in 1..Len(msgs) : i < j => msgs[i].id # msgs[j].id
        /\ \A i, j \in 1..Len(msgs) : i < j => msgs[i].timestamp <= msgs[j].timestamp}

\* the call up to its loop over roots: msg_map, children and roots are built
InitBuild ==
    /\ messages = EmptyMessages
    /\ fts = EmptyFts
    /\ durable = Committed(EmptyMessages, EmptyFts)
    /\ res = NoCall
    /\ \E msgs \in CycleInputs :
         LET roots == ThreadRoots(msgs)
         IN  tasks = << [pc |-> "format", messages |-> msgs, lines |-> <<>>,
                         stack |-> [i \in 1..(2 * Len(roots)) |->
                                       IF i % 2 = 1 THEN <<0, roots[(i + 1) \div 2].id>>
                                       ELSE <<>>]] >>

\* build_thread and _format_thread of the next message: its line, and its
\* replies, sorted, pending one level deeper; or the empty line after a thread
FormatStep ==
    /\ At(1, "format")
    /\ tasks[1].stack # <<>>
    /\ Len(tasks[1].lines) < MaxLines
    /\ LET item == Head(tasks[1].stack)
           replies == IF item = <<>> THEN <<>>
                      ELSE SortedByTimestamp(ChildrenOf(tasks[1].messages, item[2]))
       IN  tasks' = << [tasks[1] EXCEPT
                           !.lines = Append(@, item),
                           !.stack = [i \in 1..Len(replies) |->
                                         <<item[1] + 1, replies[i].id>>] \o Tail(@)] >>
    /\ UNCHANGED <<messages, fts, durable, res>>

\* return "\n".join(lines)
FormatReturn ==
    /\ At(1, "format")
    /\ tasks[1].stack = <<>>
    /\ res' = [op |-> "_format_messages_with_threads", messages |-> tasks[1].messages,
               lines |-> tasks[1].lines]
    /\ tasks' = <<Idle>>
    /\ UNCHANGED <<messages, fts, durable>>

NextBuild == FormatStep \/ FormatReturn

SpecBuild == InitBuild /\ [][NextBuild]_vars

\* the recursion is not held up
SpecBuildFair == SpecBuild /\ WF_vars(NextBuild)

\* C32: every message of the input is on exactly one line of the text
\* returned, also when a reply names its own id or the replies form a cycle.
C32_EveryMessageOnce ==
    res.op = "_format_messages_with_threads" =>
        \A n \in 1..Len(res.messages) :
            Cardinality(LinesOf(res.lines, res.messages[n].id)) = 1

\* the same of the inputs in which every reply names an earlier message or
\* a message that is not in the input
EveryMessageOnceNoCycle ==
    (/\ res.op = "_format_messages_with_threads"
     /\ \A n \in 1..Len(res.messages) :
            Resolves(res.messages[n], res.messages) =>
                \E h \in 1..(n - 1) :
                    res.messages[h].id = res.messages[n].reply_to_msg_id[1]) =>
        \A n \in 1..Len(res.messages) :
            Cardinality(LinesOf(res.lines, res.messages[n].id)) = 1

\* the lines produced call by call are those of the recursion as a whole
StepsAgreeWithRecursion ==
    res.op = "_format_messages_with_threads" =>
        res.lines = FormatMessagesWithThreads(res.messages)

\* C33: every call returns, on every input, those with a self-reply or a
\* cycle of replies included.
C33_Terminates == <>(res.op = "_format_messages_with_threads")

\* a call has returned whose input holds a message replying to itself and
\* two messages replying to each other
C33_Witness ==
    /\ res.op = "_format_messages_with_threads"
    /\ Len(res.messages) = 3
    /\ \E a, b, c \in 1..3 :
           /\ res.messages[a].reply_to_msg_id = Some(res.messages[a].id)
           /\ b # c
           /\ res.messages[b].reply_to_msg_id = Some(res.messages[c].id)
           /\ res.messages[c].reply_to_msg_id = Some(res.messages[b].id)

-----------------------------------------------------------------------------
(* The summary jobs of SummaryScheduler: _run_daily_summary and             *)
(* run_manual_summary run the same loop over config.groups.  What happens   *)
(* for a group is its outcome: no summary, a summary sent, or an exception  *)
(* raised by summarize_group or by send_message, of class Exception or not  *)
(* (asyncio.CancelledError, KeyboardInterrupt and SystemExit are not).      *)

\* the loop without its try statement: the first exception ends the job
RunGroupsNoTry(outcomes, i) ==
    LET failed == {n \in i..Len(outcomes) : outcomes[n] \notin {"no summary", "sent"}}
        last == IF failed = {} THEN Len(outcomes)
                ELSE CHOOSE n \in failed : \A h \in failed : n <= h
    IN  [attempted |-> [n \in 1..(last - i + 1) |-> n + i - 1], raised |-> failed # {}]

RECURSIVE RunGroups(_, _)
\* for group in self.config.groups: try: ... except Exception: log, from
\* group i on: the groups attempted, in order, and whether the job raised
RunGroups(outcomes, i) ==
    IF i > Len(outcomes) THEN [attempted |-> <<>>, raised |-> FALSE]
    ELSE IF outcomes[i] \in {"summarize: CancelledError", "send: CancelledError"}
         THEN [attempted |-> <<i>>, raised |-> TRUE]
         ELSE LET rest == RunGroups(outcomes, i + 1)
              IN  [attempted |-> <<i>> \o rest.attempted, raised |-> rest.raised]

\* one run of a job
SummaryJob ==
    /\ AllIdle
    /\ \E job \in {"_run_daily_summary", "run_manual_summary"}, n \in 0..MaxGroups :
         \E outcomes \in [1..n -> {"no summary", "sent",
                                  "summarize: Exception", "send: Exception",
                                  "summarize: CancelledError", "send: CancelledError"}] :
           res' = [op |-> job, outcomes |-> outcomes] @@ RunGroups(outcomes, 1)
    /\ UNCHANGED <<messages, fts, durable, tasks>>

SpecJob == Init /\ [][SummaryJob]_vars

\* the run of a job is the last call
JobRan == res.op \in {"_run_daily_summary", "run_manual_summary"}

\* the places of the groups whose outcome is an exception outside Exception
Uncaught == {n \in 1..Len(res.outcomes) :
                res.outcomes[n] \in {"summarize: CancelledError", "send: CancelledError"}}

\* C34, as stated: whatever exception summarizing or sending raises for a
\* group, every configured group is attempted, in configuration order, and
\* the job does not raise.
C34_EveryGroupAttempted ==
    JobRan =>
        /\ res.attempted = [n \in 1..Len(res.outcomes) |-> n]
        /\ ~res.raised

\* C34, amended: that holds of the exceptions of class Exception.  An
\* exception outside Exception ends the run: the groups up to that one have
\* been attempted, in configuration order, and the job raises.
C34_EveryGroupAttemptedUnlessUncaught ==
    JobRan =>
        LET last == IF Uncaught = {} THEN Len(res.outcomes)
                    ELSE CHOOSE n \in Uncaught : \A h \in Uncaught : n <= h
        IN  /\ res.attempted = [n \in 1..last |-> n]
            /\ res.raised <=> Uncaught # {}

\* summarizing raised an Exception for the first group and sending for the
\* second; the third was attempted and the job returned
C34_Witness ==
    /\ JobRan
    /\ res.outcomes = <<"summarize: Exception", "send: Exception", "sent">>
    /\ res.attempted = <<1, 2, 3>>
    /\ ~res.raised

====
